---- MODULE Spec2Model ----
(***************************************************************************)
(* A state-machine model of wgpu_render_engine: the free-fly camera and    *)
(* its controller (camera.rs), the renderer's resize / input / update /    *)
(* render operations (renderer.rs) and the event loop that drives them     *)
(* (main.rs).                                                              *)
(*                                                                         *)
(* Number representation.  The program computes in f32; the model uses     *)
(* fixed point integers:                                                   *)
(*   - angles (yaw, pitch, rotate_horizontal, rotate_vertical) in tenths   *)
(*     of a degree, so sensitivity 0.4 deg/unit is 4 and the clamp limit   *)
(*     89.0 is 890;                                                        *)
(*   - sines, cosines and unit vectors (direction, right, up) in           *)
(*     millionths; the direction before it is normalized in billionths;    *)
(*   - positions in 1/5000000 of a world unit, so that one tick at speed   *)
(*     0.2 along a unit vector v (in millionths) adds exactly v;           *)
(*   - the six movement amounts 0.0 / 1.0 as 0 / 1.                        *)
(* A unit vector of the model agrees with the f32 vector to within a few   *)
(* millionths, a position to within a few units per tick.                  *)
(***************************************************************************)
EXTENDS Integers, Sequences, FiniteSets, TLC

(***************************************************************************)
(* Program constants                                                       *)
(***************************************************************************)
\* CameraController::new(0.2, 0.4): degrees per device unit, in tenths.
Sensitivity == 4
\* CameraController::new(0.2, 0.4): speed 0.2 = 1/SpeedInv world units per tick.
SpeedInv == 5
\* self.pitch.clamp(-89.0, 89.0), in tenths of a degree.
PitchLimit == 890
\* positions are held in 1/PosScale of a world unit: a step of speed * v, for
\* a unit vector v in millionths, is then exactly v
PosScale == 1000000 * SpeedInv
\* let pyramid_vertex_count = 18 / ground_start_index = 18 / ground_vertex_count = 18
PyramidVertexCount == 18
GroundStartIndex == 18
GroundVertexCount == 18

(***************************************************************************)
(* Bounds of the model                                                     *)
(***************************************************************************)
\* RedrawRequested is handled at most MaxTicks times (yaw and position are
\* unbounded in the program).
MaxTicks == 2

(***************************************************************************)
(* Fixed point arithmetic                                                  *)
(***************************************************************************)
\* a / b rounded to the nearest integer (b > 0, |a| < 2^30)
RoundDiv(a, b) == (2 * a + b) \div (2 * b)

Abs(a) == IF a < 0 THEN -a ELSE a

\* sines, cosines and unit vectors are held in millionths, close to the
\* digits an f32 carries
WorkScale == 1000000

\* the f32 product a * b for b in millionths (|b| <= WorkScale), in the units
\* of a, rounded; the product is formed in parts to stay within 32 bit integers
MulWork(a, b) ==
    LET ma == Abs(a)
        mb == Abs(b)
        whole == (ma \div WorkScale) * mb
        part == ma % WorkScale
        hi == part * (mb \div 1000)
        lo == part * (mb % 1000)
        p == whole + (hi \div 1000) + RoundDiv((hi % 1000) * 1000 + lo, WorkScale)
    IN  IF (a < 0) = (b < 0) THEN p ELSE -p

\* 1000000 * sin(d degrees), d = 0..90
SinTable == <<
    0, 17452, 34899, 52336, 69756, 87156, 104528, 121869,
    139173, 156434, 173648, 190809, 207912, 224951, 241922, 258819,
    275637, 292372, 309017, 325568, 342020, 358368, 374607, 390731,
    406737, 422618, 438371, 453990, 469472, 484810, 500000, 515038,
    529919, 544639, 559193, 573576, 587785, 601815, 615661, 629320,
    642788, 656059, 669131, 681998, 694658, 707107, 719340, 731354,
    743145, 754710, 766044, 777146, 788011, 798636, 809017, 819152,
    829038, 838671, 848048, 857167, 866025, 874620, 882948, 891007,
    898794, 906308, 913545, 920505, 927184, 933580, 939693, 945519,
    951057, 956305, 961262, 965926, 970296, 974370, 978148, 981627,
    984808, 987688, 990268, 992546, 994522, 996195, 997564, 998630,
    999391, 999848, 1000000 >>

\* 1000000 * sin(t / 10 degrees), t = 0..9
SinTenths == <<
    0, 1745, 3491, 5236, 6981,
    8727, 10472, 12217, 13962, 15707 >>

\* 1000000 * cos(t / 10 degrees), t = 0..9
CosTenths == <<
    1000000, 999998, 999994, 999986, 999976,
    999962, 999945, 999925, 999903, 999877 >>

\* 1000000 * sin of q tenths of a degree, 0 <= q <= 900:
\* sin(d + t) = sin d cos t + cos d sin t, with cos d = sin(90 - d)
SinQuadrant(q) ==
    LET d == q \div 10
        t == q % 10
    IN  IF t = 0 THEN SinTable[d + 1]
        ELSE MulWork(SinTable[d + 1], CosTenths[t + 1])
               + MulWork(SinTable[91 - d], SinTenths[t + 1])

\* f32::to_radians().sin(): 1000000 * sin of a tenths of a degree, any a
Sin(a) ==
    LET q == a % 3600
    IN  IF q <= 900 THEN SinQuadrant(q)
        ELSE IF q <= 1800 THEN SinQuadrant(1800 - q)
        ELSE IF q <= 2700 THEN -SinQuadrant(q - 1800)
        ELSE -SinQuadrant(3600 - q)

\* f32::to_radians().cos()
Cos(a) == Sin(a + 900)

\* mutant: only the upper limit is applied
ClampUpperOnly(x, lo, hi) == IF x > hi THEN hi ELSE x

\* f32::clamp
Clamp(x, lo, hi) == IF x < lo THEN lo ELSE IF x > hi THEN hi ELSE x

\* cgmath Vector3::cross(a, b) for b in millionths: the result has the
\* units of a
Cross(a, b) ==
    << MulWork(a[2], b[3]) - MulWork(a[3], b[2]),
       MulWork(a[3], b[1]) - MulWork(a[1], b[3]),
       MulWork(a[1], b[2]) - MulWork(a[2], b[1]) >>

MaxAbs(v) ==
    LET a == Abs(v[1])
        b == Abs(v[2])
        c == Abs(v[3])
    IN  IF a >= b /\ a >= c THEN a ELSE IF b >= c THEN b ELSE c

\* a vector is normalized from 20 binary digits of its largest component
NormLow == 524288

\* the power of two by which a vector whose largest component is m > 0 has to
\* be multiplied (ScaleUp) or divided (ScaleDown) to bring that component into
\* NormLow .. 2 * NormLow
RECURSIVE ScaleUp(_)
ScaleUp(m) == IF m >= NormLow THEN 1 ELSE 2 * ScaleUp(2 * m)

RECURSIVE ScaleDown(_)
ScaleDown(m) == IF m < 2 * NormLow THEN 1 ELSE 2 * ScaleDown(m \div 2)

\* v with its exponent taken out, as a float keeps it: the direction of v is
\* kept, its length is not (normalize does not depend on it)
Scaled(v) ==
    LET m == MaxAbs(v)
        grow == ScaleUp(m)
        shrink == ScaleDown(m)
    IN  IF m = 0 THEN v
        ELSE IF m < NormLow
        THEN << v[1] * grow, v[2] * grow, v[3] * grow >>
        ELSE << RoundDiv(v[1], shrink), RoundDiv(v[2], shrink), RoundDiv(v[3], shrink) >>

\* v[1]^2 + v[2]^2 + v[3]^2 for components up to 2 * NormLow, as the three
\* digits << n2, n1, n0 >> of n2 * 1000000 + n1 * 1000 + n0 (the sum does not
\* fit 32 bits)
SquareSum(v) ==
    LET h1 == Abs(v[1]) \div 1000    l1 == Abs(v[1]) % 1000
        h2 == Abs(v[2]) \div 1000    l2 == Abs(v[2]) % 1000
        h3 == Abs(v[3]) \div 1000    l3 == Abs(v[3]) % 1000
    IN  << h1 * h1 + h2 * h2 + h3 * h3,
           2 * (h1 * l1 + h2 * l2 + h3 * l3),
           l1 * l1 + l2 * l2 + l3 * l3 >>

\* the quotient n \div r of a number n in the digits of SquareSum, by long
\* division (0 < r < 2000000)
DivWide(n, r) ==
    LET t1 == (n[1] % r) * 1000 + n[2]
        t0 == (t1 % r) * 1000 + n[3]
    IN  (n[1] \div r) * 1000000 + (t1 \div r) * 1000 + (t0 \div r)

\* Newton's iteration for the floor of the square root of n, from r >= sqrt(n)
RECURSIVE SqrtWideFrom(_, _)
SqrtWideFrom(n, r) ==
    LET s == (r + DivWide(n, r)) \div 2
    IN  IF s >= r THEN r ELSE SqrtWideFrom(n, s)

\* cgmath InnerSpace::magnitude, in the units of v and rounded to the nearest
\* integer (components up to 2 * NormLow)
Magnitude(v) ==
    LET n == SquareSum(v)
        r == SqrtWideFrom(n, 1900000)
        q == SquareSum(<< r, 0, 0 >>)
        rem == ((n[1] - q[1]) * 1000 + (n[2] - q[2])) * 1000 + (n[3] - q[3])
    IN  IF MaxAbs(v) = 0 THEN 0 ELSE IF rem > r THEN r + 1 ELSE r

\* a / m in millionths, rounded, by long division (0 <= a <= m < 2000000)
DivWork(a, m) ==
    LET t == a * 1000
    IN  (t \div m) * 1000 + ((t % m) * 1000 + m \div 2) \div m

\* cgmath InnerSpace::normalize: the unit vector along v, in millionths, for
\* v # 0 in any unit (of the zero vector the program makes NaN, the model no
\* value)
Normalize(v) ==
    LET w == Scaled(v)
        m == Magnitude(w)
    IN  << IF w[1] < 0 THEN -DivWork(-w[1], m) ELSE DivWork(w[1], m),
           IF w[2] < 0 THEN -DivWork(-w[2], m) ELSE DivWork(w[2], m),
           IF w[3] < 0 THEN -DivWork(-w[3], m) ELSE DivWork(w[3], m) >>

VecAdd(a, b) == << a[1] + b[1], a[2] + b[2], a[3] + b[3] >>

VecScale(v, k) == << v[1] * k, v[2] * k, v[3] * k >>

RECURSIVE Gcd(_, _)
Gcd(a, b) == IF b = 0 THEN a ELSE Gcd(b, a % b)

\* width as f32 / height as f32, kept as a reduced fraction <<num, den>>;
\* <<1, 0>> stands for +inf and <<0, 0>> for NaN
Aspect(width, height) ==
    IF width = 0 /\ height = 0 THEN << 0, 0 >>
    ELSE << width \div Gcd(width, height), height \div Gcd(width, height) >>

(***************************************************************************)
(* State                                                                   *)
(***************************************************************************)
VARIABLES
    camera,             \* Renderer.camera : Camera
    camera_controller,  \* Renderer.camera_controller : CameraController
    size,               \* Renderer.size : PhysicalSize<u32>
    config,             \* Renderer.config (width, height)
    rotation,           \* Renderer.rotation
    surface,            \* the presentation surface: its state and the size it was configured with
    camera_buffer,      \* GPU contents of Renderer.camera_buffer
    transform_buffer,   \* GPU contents of Renderer.transform_buffer
    queue_writes,       \* queue.write_buffer calls staged and not yet submitted
    pass,               \* commands recorded in the current render pass
    frame,              \* the draws executed by the last submit, with what they read
    screen,             \* the frame last presented
    exit,               \* control_flow.set_exit() was called
    pc,                 \* position in the RedrawRequested handler ("idle": between events)
    result,             \* what renderer.render() returned in the current / last tick
    event,              \* the event being handled, or handled last
    input_result,       \* what renderer.input(event) returned for the last window event
    keyboard,           \* history: the forward keys held down, and the intents whose last key event was a press
    calls,              \* the operations performed so far by the handler of `event`, in order
    ticks,              \* RedrawRequested events handled so far
    motion,             \* history: the pointer motions since the last tick ended: how
                        \* many (0, 1, 2 = several) and the deltas of the last one
    lost_recovery       \* history: the last tick ended in the Lost arm and neither a
                        \* resize event nor a new surface fault happened since

vars == << camera, camera_controller, size, config, rotation, surface,
           camera_buffer, transform_buffer, queue_writes, pass, frame, screen,
           exit, pc, result, event, input_result, keyboard, calls, ticks, motion, lost_recovery >>

(***************************************************************************)
(* camera.rs                                                               *)
(***************************************************************************)
\* Camera::new(width, height)
CameraNew(width, height) ==
    [ aspect    |-> Aspect(width, height),
      direction |-> << 0, 0, -WorkScale >>,
      pitch     |-> 0,
      position  |-> << 0, 1 * PosScale, 2 * PosScale >>,
      up        |-> << 0, WorkScale, 0 >>,
      yaw       |-> -900 ]

\* Camera::update, lines 58-61: Vector3::new(cos yaw cos pitch, sin pitch,
\* sin yaw cos pitch), in billionths
DirectionVector(yaw, pitch) ==
    << MulWork(Cos(yaw) * 1000, Cos(pitch)),
       Sin(pitch) * 1000,
       MulWork(Sin(yaw) * 1000, Cos(pitch)) >>

\* Camera::update, lines 58-63: the direction, in millionths
Direction(yaw, pitch) == Normalize(DirectionVector(yaw, pitch))

\* Camera::update, line 66: direction.cross(self.up).normalize(), in
\* millionths.  An f32 keeps the leading digits of each component of direction,
\* however small, and fixed point millionths do not: the cross product is
\* taken of the direction in billionths.
Right(yaw, pitch, up) == Normalize(Cross(DirectionVector(yaw, pitch), up))

\* mutant: the position moves along the direction of the previous update
CameraUpdateOldDirection(cam, ctl) ==
    LET yaw       == cam.yaw + ctl.rotate_horizontal
        pitch     == Clamp(cam.pitch + ctl.rotate_vertical, -PitchLimit, PitchLimit)
        direction == Direction(yaw, pitch)
        right     == Right(yaw, pitch, cam.up)
        p1 == VecAdd(cam.position,
                     VecScale(cam.direction, ctl.amount_forward - ctl.amount_backward))
        p2 == VecAdd(p1, VecScale(right, ctl.amount_right - ctl.amount_left))
        p3 == [p2 EXCEPT ![2] = @ + (ctl.amount_up - ctl.amount_down) * WorkScale]
    IN  [cam EXCEPT !.yaw = yaw, !.pitch = pitch,
                    !.direction = direction, !.position = p3]

\* Camera::update(&mut self, controller)
CameraUpdate(cam, ctl) ==
    LET yaw       == cam.yaw + ctl.rotate_horizontal
        pitch     == Clamp(cam.pitch + ctl.rotate_vertical, -PitchLimit, PitchLimit)
        direction == Direction(yaw, pitch)
        right     == Right(yaw, pitch, cam.up)
        p1 == VecAdd(cam.position,
                     VecScale(direction, ctl.amount_forward - ctl.amount_backward))
        p2 == VecAdd(p1, VecScale(right, ctl.amount_right - ctl.amount_left))
        p3 == [p2 EXCEPT ![2] = @ + (ctl.amount_up - ctl.amount_down) * WorkScale]
    IN  [cam EXCEPT !.yaw = yaw, !.pitch = pitch,
                    !.direction = direction, !.position = p3]

\* Camera::resize(width, height)
CameraResize(cam, width, height) == [cam EXCEPT !.aspect = Aspect(width, height)]

\* Camera::build_view_projection_matrix: the uniform is determined by the view
\* parameters (position, direction, up) and the projection parameter that
\* varies (aspect); fovy, znear and zfar are fixed.
BuildViewProjectionMatrix(cam) ==
    [ proj_aspect   |-> cam.aspect,
      view_dir      |-> cam.direction,
      view_position |-> cam.position,
      view_up       |-> cam.up ]

\* CameraController::new(speed, sensitivity)
ControllerNew ==
    [ rotate_horizontal |-> 0,
      rotate_vertical |-> 0,
      amount_forward |-> 0,
      amount_backward |-> 0,
      amount_right |-> 0,
      amount_left |-> 0,
      amount_up |-> 0,
      amount_down |-> 0,
      scroll |-> 0 ]

\* the keys of VirtualKeyCode the model draws from; "Escape" and "Q" stand for
\* the unmapped keys
MappedKeys == { "W", "Up", "S", "Down", "A", "Left", "D", "Right", "Space", "LShift" }
UnmappedKeys == { "Escape", "Q" }
ElementStates == { "Pressed", "Released" }

\* mutant: the Up arrow is taken for the "up" intent
ProcessKeyboardStateUpArrow(ctl, key, state) ==
    LET amount == IF state = "Pressed" THEN 1 ELSE 0
    IN  CASE key = "W"                  -> [ctl EXCEPT !.amount_forward = amount]
          [] key \in { "S", "Down" }    -> [ctl EXCEPT !.amount_backward = amount]
          [] key \in { "A", "Left" }    -> [ctl EXCEPT !.amount_left = amount]
          [] key \in { "D", "Right" }   -> [ctl EXCEPT !.amount_right = amount]
          [] key \in { "Space", "Up" }  -> [ctl EXCEPT !.amount_up = amount]
          [] key = "LShift"             -> [ctl EXCEPT !.amount_down = amount]
          [] OTHER                      -> ctl

\* mutant: an intent with two keys stays set while one of them is still held
\* (the first key of the pair shields the intent from the release of the second)
ProcessKeyboardStateWhileHeld(ctl, key, state) ==
    LET amount == IF state = "Pressed" THEN 1 ELSE 0
        other == IF state = "Pressed" THEN 1 ELSE ctl.amount_forward
    IN  CASE key = "W"                  -> [ctl EXCEPT !.amount_forward = amount]
          [] key = "Up"                 -> [ctl EXCEPT !.amount_forward = other]
          [] key \in { "S", "Down" }    -> [ctl EXCEPT !.amount_backward = amount]
          [] key \in { "A", "Left" }    -> [ctl EXCEPT !.amount_left = amount]
          [] key \in { "D", "Right" }   -> [ctl EXCEPT !.amount_right = amount]
          [] key = "Space"              -> [ctl EXCEPT !.amount_up = amount]
          [] key = "LShift"             -> [ctl EXCEPT !.amount_down = amount]
          [] OTHER                      -> ctl

\* CameraController::process_keyboard: the controller after the call
ProcessKeyboardState(ctl, key, state) ==
    LET amount == IF state = "Pressed" THEN 1 ELSE 0
    IN  CASE key \in { "W", "Up" }      -> [ctl EXCEPT !.amount_forward = amount]
          [] key \in { "S", "Down" }    -> [ctl EXCEPT !.amount_backward = amount]
          [] key \in { "A", "Left" }    -> [ctl EXCEPT !.amount_left = amount]
          [] key \in { "D", "Right" }   -> [ctl EXCEPT !.amount_right = amount]
          [] key = "Space"              -> [ctl EXCEPT !.amount_up = amount]
          [] key = "LShift"             -> [ctl EXCEPT !.amount_down = amount]
          [] OTHER                      -> ctl

\* CameraController::process_keyboard: its return value
ProcessKeyboardResult(key, state) ==
    CASE key \in { "W", "Up" }      -> TRUE
      [] key \in { "S", "Down" }    -> TRUE
      [] key \in { "A", "Left" }    -> TRUE
      [] key \in { "D", "Right" }   -> TRUE
      [] key = "Space"              -> TRUE
      [] key = "LShift"             -> TRUE
      [] OTHER                      -> FALSE

\* mutant: the deltas are accumulated instead of overwritten
ProcessMouseMovementAccumulate(ctl, delta_x, delta_y) ==
    [ctl EXCEPT !.rotate_horizontal = @ - delta_x * Sensitivity,
                !.rotate_vertical = @ - delta_y * Sensitivity]

\* CameraController::process_mouse_movement(delta_x, delta_y)
ProcessMouseMovement(ctl, delta_x, delta_y) ==
    [ctl EXCEPT !.rotate_horizontal = -delta_x * Sensitivity,
                !.rotate_vertical = -delta_y * Sensitivity]

\* mutant: only the horizontal delta is zeroed
ResetMouseMovementHorizontalOnly(ctl) == [ctl EXCEPT !.rotate_horizontal = 0]

\* CameraController::reset_mouse_movement
ResetMouseMovement(ctl) ==
    [ctl EXCEPT !.rotate_horizontal = 0, !.rotate_vertical = 0]

(***************************************************************************)
(* renderer.rs: matrices, the surface and the queue                        *)
(***************************************************************************)
\* Matrix4::from_angle_x(Deg(r * 0.7)) * from_angle_y(Deg(r)) * from_angle_z(Deg(r * 0.3))
\* [* from_translation(0, lift, 0)], for r in tenths of a degree: the three
\* angles (in hundredths) and the translation identify the matrix
ModelMatrix(r, lift) ==
    [ angles |-> << 7 * r, 10 * r, 3 * r >>, translation |-> << 0, lift, 0 >> ]

\* Matrix4::identity()
IdentityMatrix == [ angles |-> << 0, 0, 0 >>, translation |-> << 0, 0, 0 >> ]

\* surface.configure(&device, &config): the surface is usable again, with the
\* configured size (a pending Timeout / OutOfMemory condition is not a
\* property of the configuration)
SurfaceConfigure(srf, cfg) ==
    [ width |-> cfg.width,
      height |-> cfg.height,
      state |-> IF srf.state \in { "lost", "outdated" } THEN "ok" ELSE srf.state ]

\* surface.get_current_texture(): what it returns in each surface state
AcquireResult(srf) ==
    CASE srf.state = "ok"       -> "Ok"
      [] srf.state = "lost"     -> "Lost"
      [] srf.state = "outdated" -> "Outdated"
      [] srf.state = "timeout"  -> "Timeout"
      [] srf.state = "oom"      -> "OutOfMemory"

\* the surface after get_current_texture(): a timeout is over, the other
\* conditions stay until the surface is configured again
AcquireSurface(srf) ==
    IF srf.state = "timeout" THEN [srf EXCEPT !.state = "ok"] ELSE srf

\* queue.write_buffer(buffer, 0, data): staged until the next submit
WriteBuffer(writes, buffer, data) ==
    Append(writes, [ buffer |-> buffer, data |-> data ])

\* the contents of `buffer` once the staged writes have been carried out, in
\* the order they were issued
RECURSIVE AfterWrites(_, _, _)
AfterWrites(writes, buffer, old) ==
    IF writes = << >> THEN old
    ELSE AfterWrites(Tail(writes), buffer,
                     IF Head(writes).buffer = buffer THEN Head(writes).data ELSE old)

\* the draws of a recorded pass, each with the buffer contents it reads when
\* the pass is executed
RECURSIVE ExecutePass(_, _, _)
ExecutePass(cmds, cam_buf, tr_buf) ==
    IF cmds = << >> THEN << >>
    ELSE IF Head(cmds).op = "draw"
         THEN << [ model |-> tr_buf, vertices |-> Head(cmds).arg, view |-> cam_buf ] >>
              \o ExecutePass(Tail(cmds), cam_buf, tr_buf)
         ELSE ExecutePass(Tail(cmds), cam_buf, tr_buf)

\* queue.submit(encoder.finish()): the staged buffer writes are carried out
\* first, then the recorded pass is executed
SubmitFrame(cmds, writes, cam_buf, tr_buf) ==
    ExecutePass(cmds, AfterWrites(writes, "camera", cam_buf),
                      AfterWrites(writes, "transform", tr_buf))

(***************************************************************************)
(* renderer.rs: Renderer                                                   *)
(***************************************************************************)
\* mutant: only the width is tested
ResizeGuardWidthOnly(new_size) == new_size.width > 0

\* Renderer::resize: the guard of line 490
ResizeGuard(new_size) == new_size.width > 0 /\ new_size.height > 0

\* mutant: the sizes are recorded but the surface is not configured
ResizeWithoutConfigure(new_size, done) ==
    IF ResizeGuard(new_size)
    THEN /\ size' = new_size
         /\ config' = [ width |-> new_size.width, height |-> new_size.height ]
         /\ camera' = CameraResize(camera, new_size.width, new_size.height)
         /\ calls' = done
         /\ UNCHANGED surface
    ELSE /\ UNCHANGED << size, config, surface, camera >>
         /\ calls' = done

\* mutant: the camera is not told the new size
ResizeWithoutCamera(new_size, done) ==
    IF ResizeGuard(new_size)
    THEN /\ size' = new_size
         /\ config' = [ width |-> new_size.width, height |-> new_size.height ]
         /\ surface' = SurfaceConfigure(surface, config')
         /\ calls' = Append(done, "surface.configure")
         /\ UNCHANGED camera
    ELSE /\ UNCHANGED << size, config, surface, camera >>
         /\ calls' = done

\* Renderer::resize(new_size), called after the handler made the calls `done`
Resize(new_size, done) ==
    IF ResizeGuard(new_size)
    THEN /\ size' = new_size
         /\ config' = [ width |-> new_size.width, height |-> new_size.height ]
         /\ surface' = SurfaceConfigure(surface, config')
         /\ camera' = CameraResize(camera, new_size.width, new_size.height)
         /\ calls' = Append(done, "surface.configure")
    ELSE /\ UNCHANGED << size, config, surface, camera >>
         /\ calls' = done

\* mutant: every window event is reported as consumed while a movement key
\* is held
RendererInputResultWhileHeld(ev) ==
    IF ev.kind = "KeyboardInput" /\ ev.key # "None"
    THEN ProcessKeyboardResult(ev.key, ev.state)
    ELSE camera_controller.amount_forward = 1

\* Renderer::input(event): its return value
RendererInputResult(ev) ==
    IF ev.kind = "KeyboardInput" /\ ev.key # "None"
    THEN ProcessKeyboardResult(ev.key, ev.state)
    ELSE FALSE

\* Renderer::input(event): the controller after the call
RendererInputState(ctl, ev) ==
    IF ev.kind = "KeyboardInput" /\ ev.key # "None"
    THEN ProcessKeyboardState(ctl, ev.key, ev.state)
    ELSE ctl

(***************************************************************************)
(* main.rs: the event loop                                                 *)
(***************************************************************************)
\* events: kind, and the payload of that kind (key and state of a
\* KeyboardInput, key "None" when its virtual_keycode is None; x, y: the
\* width and height of a Resized, the delta of a MouseMotion)
EventOf(kind, key, state, x, y) ==
    [ x |-> x, key |-> key, state |-> state, kind |-> kind, y |-> y ]
PlainEvent(kind) == EventOf(kind, "None", "Released", 0, 0)
KeyboardInputEvent(key, state) == EventOf("KeyboardInput", key, state, 0, 0)
CloseRequestedEvent == PlainEvent("CloseRequested")
ResizedEvent(width, height) == EventOf("Resized", "None", "Released", width, height)
MouseMotionEvent(delta_x, delta_y) == EventOf("MouseMotion", "None", "Released", delta_x, delta_y)

NoMotion == [ x |-> 0, y |-> 0, count |-> 0 ]

\* the statements of the RedrawRequested arm in program order: renderer.update()
\* (camera.update, the camera upload, reset_mouse_movement, the transform
\* upload), renderer.render() (acquire ... present) and the match on its result
TickProgram ==
    << "camera_update", "upload_camera", "reset_mouse", "write_transform",
       "acquire", "encode", "draw_pyramid", "draw_ground", "submit", "present",
       "match" >>

\* the statement that follows `step`
StepAfter(step) ==
    LET i == CHOOSE j \in 1..Len(TickProgram) : TickProgram[j] = step
    IN  IF i = Len(TickProgram) THEN "idle" ELSE TickProgram[i + 1]

\* mutant: OutOfMemory falls into the logging arm
MatchArmOutOfMemoryLogged(res) ==
    CASE res = "Ok"          -> "nothing"
      [] res = "Lost"        -> "resize"
      [] OTHER               -> "eprintln"

\* mutant: every error but OutOfMemory is answered with a resize
MatchArmAlwaysResize(res) ==
    CASE res = "Ok"          -> "nothing"
      [] res = "OutOfMemory" -> "set_exit"
      [] OTHER               -> "resize"

\* the arm of `match renderer.render()` taken for each result (main.rs 57-60)
MatchArm(res) ==
    CASE res = "Ok"          -> "nothing"
      [] res = "Lost"        -> "resize"
      [] res = "OutOfMemory" -> "set_exit"
      [] OTHER               -> "eprintln"

\* the directional intent each mapped key stands for
IntentOf(key) ==
    CASE key \in { "W", "Up" }    -> "amount_forward"
      [] key \in { "S", "Down" }  -> "amount_backward"
      [] key \in { "A", "Left" }  -> "amount_left"
      [] key \in { "D", "Right" } -> "amount_right"
      [] key = "Space"            -> "amount_up"
      [] key = "LShift"           -> "amount_down"

\* the keyboard at start-up: no key held, no key event yet
NoKeys == [ held |-> { }, pressed_last |-> { } ]

\* the keys whose held state the history follows: the two keys of the forward
\* intent
ForwardKeys == { "W", "Up" }

\* the keyboard after the window event ev: a press of a mapped key makes the
\* press the last event of its intent (and a forward key held), a release does
\* the opposite
KeyboardAfter(kb, ev) ==
    IF ev.kind = "KeyboardInput" /\ ev.key \in MappedKeys
    THEN IF ev.state = "Pressed"
         THEN [ held |-> kb.held \cup ({ ev.key } \cap ForwardKeys),
                pressed_last |-> kb.pressed_last \cup { IntentOf(ev.key) } ]
         ELSE [ held |-> kb.held \ { ev.key },
                pressed_last |-> kb.pressed_last \ { IntentOf(ev.key) } ]
    ELSE kb

Init ==
    /\ size = [ width |-> 800, height |-> 600 ]
    /\ config = [ width |-> 800, height |-> 600 ]
    /\ surface = [ width |-> 800, height |-> 600, state |-> "ok" ]
    /\ camera = CameraNew(800, 600)
    /\ camera_controller = ControllerNew
    /\ rotation = 0
    /\ camera_buffer = BuildViewProjectionMatrix(CameraNew(800, 600))
    /\ transform_buffer = IdentityMatrix
    /\ queue_writes = << >>
    /\ pass = << >>
    /\ frame = << >>
    /\ screen = << >>
    /\ exit = FALSE
    /\ pc = "idle"
    /\ result = "none"
    /\ event = PlainEvent("none")
    /\ input_result = FALSE
    /\ keyboard = NoKeys
    /\ calls = << >>
    /\ ticks = 0
    /\ motion = NoMotion
    /\ lost_recovery = FALSE

gpu_vars == << camera_buffer, transform_buffer, queue_writes, pass, frame, screen >>
tick_vars == << pc, result, ticks >>

\* Event::WindowEvent { event, window_id } if window_id == window.id()
WindowEvent(ev) ==
    /\ pc = "idle"
    /\ event' = ev
    /\ input_result' = RendererInputResult(ev)
    /\ keyboard' = KeyboardAfter(keyboard, ev)
    /\ camera_controller' = RendererInputState(camera_controller, ev)
    /\ IF RendererInputResult(ev)
       THEN /\ calls' = << >>
            /\ UNCHANGED << exit, size, config, surface, camera, lost_recovery >>
       ELSE CASE ev.kind = "CloseRequested" ->
                   /\ exit' = TRUE
                   /\ calls' = << "set_exit" >>
                   /\ UNCHANGED << size, config, surface, camera, lost_recovery >>
              [] ev.kind = "Resized" ->
                   /\ Resize([ width |-> ev.x, height |-> ev.y ], << >>)
                   /\ lost_recovery' = FALSE
                   /\ UNCHANGED exit
              [] OTHER ->
                   /\ calls' = << >>
                   /\ UNCHANGED << exit, size, config, surface, camera, lost_recovery >>
    /\ UNCHANGED << rotation, gpu_vars, tick_vars, motion >>

KeyboardInput(key, state) == WindowEvent(KeyboardInputEvent(key, state))

CloseRequested == WindowEvent(CloseRequestedEvent)

Resized(width, height) == WindowEvent(ResizedEvent(width, height))

\* Event::DeviceEvent { DeviceEvent::MouseMotion { delta } }
MouseMotion(delta_x, delta_y) ==
    /\ pc = "idle"
    /\ event' = MouseMotionEvent(delta_x, delta_y)
    /\ calls' = << "process_mouse_movement" >>
    /\ camera_controller' = ProcessMouseMovement(camera_controller, delta_x, delta_y)
    /\ motion' = [ x |-> delta_x, y |-> delta_y, count |-> IF motion.count = 0 THEN 1 ELSE 2 ]
    /\ UNCHANGED << camera, size, config, rotation, surface, gpu_vars, exit,
                    tick_vars, input_result, keyboard, lost_recovery >>

\* Event::MainEventsCleared
MainEventsCleared ==
    /\ pc = "idle"
    /\ event' = PlainEvent("MainEventsCleared")
    /\ calls' = << "request_redraw" >>
    /\ UNCHANGED << camera, camera_controller, size, config, rotation, surface,
                    gpu_vars, exit, tick_vars, input_result, keyboard, motion, lost_recovery >>

\* the presentation layer: between two events the surface may be lost or
\* outdated, or the next acquire may time out or run out of memory (no handler
\* of the program runs; `event` records it as the last thing that happened)
SurfaceFault(f) ==
    /\ pc = "idle"
    /\ surface.state = "ok"
    /\ surface' = [surface EXCEPT !.state = f]
    /\ lost_recovery' = FALSE
    /\ event' = PlainEvent("SurfaceFault")
    /\ calls' = << >>
    /\ UNCHANGED << camera, camera_controller, size, config, rotation, gpu_vars,
                    exit, tick_vars, input_result, keyboard, motion >>

\* Event::RedrawRequested(window_id) if window_id == window.id(): the handler starts
RedrawRequested ==
    /\ pc = "idle"
    /\ ticks < MaxTicks
    /\ ticks' = ticks + 1
    /\ event' = PlainEvent("RedrawRequested")
    /\ calls' = << >>
    /\ result' = "none"
    /\ pc' = TickProgram[1]
    /\ UNCHANGED << camera, camera_controller, size, config, rotation, surface,
                    gpu_vars, exit, input_result, keyboard, motion, lost_recovery >>

\* renderer.update(), line 515: self.camera.update(&self.camera_controller)
TickCameraUpdate ==
    /\ pc = "camera_update"
    /\ camera' = CameraUpdate(camera, camera_controller)
    /\ calls' = Append(calls, "camera.update")
    /\ pc' = StepAfter("camera_update")
    /\ UNCHANGED << camera_controller, size, config, rotation, surface, gpu_vars,
                    exit, result, event, input_result, keyboard, ticks, motion, lost_recovery >>

\* renderer.update(), lines 516-521: the camera uniform is written to camera_buffer
TickUploadCamera ==
    /\ pc = "upload_camera"
    /\ queue_writes' = WriteBuffer(queue_writes, "camera", BuildViewProjectionMatrix(camera))
    /\ calls' = Append(calls, "write_buffer(camera)")
    /\ pc' = StepAfter("upload_camera")
    /\ UNCHANGED << camera, camera_controller, size, config, rotation, surface,
                    camera_buffer, transform_buffer, pass, frame, screen,
                    exit, result, event, input_result, keyboard, ticks, motion, lost_recovery >>

\* renderer.update(), line 524: self.camera_controller.reset_mouse_movement()
TickResetMouse ==
    /\ pc = "reset_mouse"
    /\ camera_controller' = ResetMouseMovement(camera_controller)
    /\ calls' = Append(calls, "reset_mouse_movement")
    /\ pc' = StepAfter("reset_mouse")
    /\ UNCHANGED << camera, size, config, rotation, surface, gpu_vars,
                    exit, result, event, input_result, keyboard, ticks, motion, lost_recovery >>

\* renderer.update(), lines 527-541: rotation += 0.0 and the rotation matrix
\* is written to transform_buffer
TickWriteTransform ==
    /\ pc = "write_transform"
    /\ rotation' = rotation + 0
    /\ queue_writes' = WriteBuffer(queue_writes, "transform", ModelMatrix(rotation', 0))
    /\ calls' = Append(calls, "write_buffer(transform)")
    /\ pc' = StepAfter("write_transform")
    /\ UNCHANGED << camera, camera_controller, size, config, surface,
                    camera_buffer, transform_buffer, pass, frame, screen,
                    exit, result, event, input_result, keyboard, ticks, motion, lost_recovery >>

\* mutant: the error of get_current_texture is not propagated
TickAcquireIgnoreError ==
    /\ pc = "acquire"
    /\ result' = AcquireResult(surface)
    /\ surface' = AcquireSurface(surface)
    /\ calls' = Append(calls, "get_current_texture")
    /\ pc' = StepAfter("acquire")
    /\ UNCHANGED << camera, camera_controller, size, config, rotation, gpu_vars,
                    exit, event, input_result, keyboard, ticks, motion, lost_recovery >>

\* renderer.render(), line 549: let output = self.surface.get_current_texture()?
TickAcquire ==
    /\ pc = "acquire"
    /\ result' = AcquireResult(surface)
    /\ surface' = AcquireSurface(surface)
    /\ calls' = Append(calls, "get_current_texture")
    /\ pc' = IF result' = "Ok" THEN StepAfter("acquire") ELSE "match"
    /\ UNCHANGED << camera, camera_controller, size, config, rotation, gpu_vars,
                    exit, event, input_result, keyboard, ticks, motion, lost_recovery >>

\* renderer.render(), lines 550-581: the encoder, the render pass that clears
\* the target, the pipeline and bind groups 0 (camera) and 2 (light); bind
\* group 1 is the transform
TickEncode ==
    /\ pc = "encode"
    /\ pass' = << [ op |-> "begin_render_pass", arg |-> << >> ],
                  [ op |-> "set_pipeline", arg |-> << >> ],
                  [ op |-> "set_bind_group", arg |-> << 0 >> ],
                  [ op |-> "set_bind_group", arg |-> << 2 >> ] >>
    /\ calls' = Append(calls, "begin_render_pass")
    /\ pc' = StepAfter("encode")
    /\ UNCHANGED << camera, camera_controller, size, config, rotation, surface,
                    camera_buffer, transform_buffer, queue_writes, frame, screen,
                    exit, result, event, input_result, keyboard, ticks, motion, lost_recovery >>

\* renderer.render(), lines 583-602: the pyramid's matrix is written to
\* transform_buffer, bind group 1 is set and vertices 0..18 are drawn
TickDrawPyramid ==
    /\ pc = "draw_pyramid"
    /\ queue_writes' = WriteBuffer(queue_writes, "transform", ModelMatrix(rotation, 1))
    /\ pass' = pass \o << [ op |-> "set_bind_group", arg |-> << 1 >> ],
                          [ op |-> "set_vertex_buffer", arg |-> << 0 >> ],
                          [ op |-> "draw", arg |-> << 0, PyramidVertexCount >> ] >>
    /\ calls' = calls \o << "write_buffer(transform)", "draw" >>
    /\ pc' = StepAfter("draw_pyramid")
    /\ UNCHANGED << camera, camera_controller, size, config, rotation, surface,
                    camera_buffer, transform_buffer, frame, screen,
                    exit, result, event, input_result, keyboard, ticks, motion, lost_recovery >>

\* renderer.render(), lines 604-619: the identity is written to
\* transform_buffer, bind group 1 is set and vertices 18..36 are drawn
TickDrawGround ==
    /\ pc = "draw_ground"
    /\ queue_writes' = WriteBuffer(queue_writes, "transform", IdentityMatrix)
    /\ pass' = pass \o << [ op |-> "set_bind_group", arg |-> << 1 >> ],
                          [ op |-> "set_vertex_buffer", arg |-> << 0 >> ],
                          [ op |-> "draw", arg |-> << GroundStartIndex, GroundStartIndex + GroundVertexCount >> ] >>
    /\ calls' = calls \o << "write_buffer(transform)", "draw" >>
    /\ pc' = StepAfter("draw_ground")
    /\ UNCHANGED << camera, camera_controller, size, config, rotation, surface,
                    camera_buffer, transform_buffer, frame, screen,
                    exit, result, event, input_result, keyboard, ticks, motion, lost_recovery >>

\* renderer.render(), line 622: self.queue.submit(once(encoder.finish()))
TickSubmit ==
    /\ pc = "submit"
    /\ frame' = SubmitFrame(pass, queue_writes, camera_buffer, transform_buffer)
    /\ camera_buffer' = AfterWrites(queue_writes, "camera", camera_buffer)
    /\ transform_buffer' = AfterWrites(queue_writes, "transform", transform_buffer)
    /\ queue_writes' = << >>
    /\ pass' = << >>
    /\ calls' = Append(calls, "submit")
    /\ pc' = StepAfter("submit")
    /\ UNCHANGED << camera, camera_controller, size, config, rotation, surface,
                    screen, exit, result, event, input_result, keyboard, ticks, motion, lost_recovery >>

\* renderer.render(), lines 623-625: output.present(); Ok(())
TickPresent ==
    /\ pc = "present"
    /\ screen' = frame
    /\ calls' = Append(calls, "present")
    /\ pc' = StepAfter("present")
    /\ UNCHANGED << camera, camera_controller, size, config, rotation, surface,
                    camera_buffer, transform_buffer, queue_writes, pass, frame,
                    exit, result, event, input_result, keyboard, ticks, motion, lost_recovery >>

\* main.rs 56-61: match renderer.render() { ... }; the handler returns
TickMatch ==
    /\ pc = "match"
    /\ CASE MatchArm(result) = "resize" ->
              /\ Resize(size, calls)
              /\ UNCHANGED exit
         [] MatchArm(result) = "set_exit" ->
              /\ exit' = TRUE
              /\ calls' = Append(calls, "set_exit")
              /\ UNCHANGED << size, config, surface, camera >>
         [] MatchArm(result) = "eprintln" ->
              /\ calls' = Append(calls, "eprintln")
              /\ UNCHANGED << exit, size, config, surface, camera >>
         [] OTHER ->
              /\ UNCHANGED << exit, calls, size, config, surface, camera >>
    /\ lost_recovery' = (result = "Lost")
    /\ motion' = NoMotion
    /\ pc' = StepAfter("match")
    /\ UNCHANGED << camera_controller, rotation, gpu_vars, result, event,
                    input_result, keyboard, ticks >>

\* the RedrawRequested handler, statement by statement
Tick ==
    \/ TickCameraUpdate \/ TickUploadCamera \/ TickResetMouse \/ TickWriteTransform
    \/ TickAcquire \/ TickEncode \/ TickDrawPyramid \/ TickDrawGround
    \/ TickSubmit \/ TickPresent \/ TickMatch

(***************************************************************************)
(* Specifications                                                          *)
(***************************************************************************)
\* the inputs the event loop is driven with
LoopKeys == { "W" }
LoopDeltas == { << 25, -250 >> }
LoopSizes == { << 400, 0 >>, << 400, 300 >> }
Faults == { "lost", "outdated", "timeout", "oom" }

\* event_loop.run(closure): the closure is called for one event at a time.
\* After control_flow.set_exit() the loop still delivers the events left in the
\* iteration under way, which ends with its RedrawRequested, and is then left:
\* no event is delivered after a RedrawRequested handled with exit set.
LoopDelivers == ~(exit /\ event.kind = "RedrawRequested")

Next ==
    \/ LoopDelivers /\ \E k \in LoopKeys, s \in ElementStates : KeyboardInput(k, s)
    \/ LoopDelivers /\ CloseRequested
    \/ LoopDelivers /\ \E d \in LoopSizes : Resized(d[1], d[2])
    \/ LoopDelivers /\ \E d \in LoopDeltas : MouseMotion(d[1], d[2])
    \/ LoopDelivers /\ MainEventsCleared
    \/ LoopDelivers /\ \E f \in Faults : SurfaceFault(f)
    \/ LoopDelivers /\ RedrawRequested
    \/ Tick

Spec == Init /\ [][Next]_vars

\* the camera and its controller under richer input: held keys, pointer
\* motions large enough to reach both pitch limits, and ticks
CameraKeys == { "W", "Escape" }
CameraDeltas == { << 25, 0 >>, << 0, -250 >>, << 0, 250 >>, << -10, 20 >> }

NextCamera ==
    \/ LoopDelivers /\ \E k \in CameraKeys, s \in ElementStates : KeyboardInput(k, s)
    \/ LoopDelivers /\ \E d \in CameraDeltas : MouseMotion(d[1], d[2])
    \/ LoopDelivers /\ RedrawRequested
    \/ Tick

SpecCamera == Init /\ [][NextCamera]_vars

\* the controller under every key of the model, pressed and released, with
\* pointer motions in between
AllKeys == MappedKeys \cup UnmappedKeys \cup { "None" }
KeyboardDeltas == { << 25, 0 >>, << -10, 20 >> }

NextKeyboard ==
    \/ LoopDelivers /\ \E k \in AllKeys, s \in ElementStates : KeyboardInput(k, s)
    \/ LoopDelivers /\ \E d \in KeyboardDeltas : MouseMotion(d[1], d[2])

SpecKeyboard == Init /\ [][NextKeyboard]_vars

\* the camera pose under movement keys of every axis, opposite keys included,
\* with a pointer motion that turns and tilts the camera
MoveKeys == { "W", "S", "D", "Space" }
MoveDeltas == { << -10, 20 >> }

NextMove ==
    \/ LoopDelivers /\ \E k \in MoveKeys, s \in ElementStates : KeyboardInput(k, s)
    \/ LoopDelivers /\ \E d \in MoveDeltas : MouseMotion(d[1], d[2])
    \/ LoopDelivers /\ RedrawRequested
    \/ Tick

SpecMove == Init /\ [][NextMove]_vars


\* the sizes under resize events of several aspects, zero-area ones included,
\* with lost and outdated surfaces and ticks in between
ResizeSizes == { << 0, 300 >>, << 400, 0 >>, << 0, 0 >>, << 400, 200 >>, << 300, 300 >> }
ResizeFaults == { "lost", "outdated" }

NextResize ==
    \/ LoopDelivers /\ \E d \in ResizeSizes : Resized(d[1], d[2])
    \/ LoopDelivers /\ \E f \in ResizeFaults : SurfaceFault(f)
    \/ LoopDelivers /\ RedrawRequested
    \/ Tick

SpecResize == Init /\ [][NextResize]_vars

(***************************************************************************)
(* Claims                                                                  *)
(***************************************************************************)
IsPrefix(a, b) == Len(a) <= Len(b) /\ a = SubSeq(b, 1, Len(a))

InTick == event.kind = "RedrawRequested"

\* C1: in every submitted frame each draw reads the transform written for its
\* object: the pyramid draw (vertices 0..18) the pyramid's model matrix, the
\* ground draw (vertices 18..36) the identity.
C1_DrawsReadOwnTransform ==
    \A i \in 1..Len(frame) :
        /\ frame[i].vertices = << 0, 18 >> => frame[i].model = ModelMatrix(rotation, 1)
        /\ frame[i].vertices = << 18, 36 >> => frame[i].model = IdentityMatrix

\* the operations of one tick in the order the claim C2 gives them
AcquireFirstOrder ==
    << "get_current_texture",
       "camera.update", "write_buffer(camera)", "reset_mouse_movement",
       "write_buffer(transform)",
       "begin_render_pass", "write_buffer(transform)", "draw",
       "write_buffer(transform)", "draw", "submit", "present" >>

\* the operations of one tick in the order Update, Acquire, Encode, draws,
\* Submit, present
UpdateFirstOrder ==
    << "camera.update", "write_buffer(camera)", "reset_mouse_movement",
       "write_buffer(transform)",
       "get_current_texture",
       "begin_render_pass", "write_buffer(transform)", "draw",
       "write_buffer(transform)", "draw", "submit", "present" >>

\* C2: within a tick the operations run strictly in the order Acquire, Update
\* (camera.update, camera upload, reset_mouse_movement), Encode, the draw
\* cycles, Submit, present, the update only after the target is acquired; and a
\* new tick starts only after the previous one has finished: while a tick is
\* under way no handler starts and no RedrawRequested is counted.
C2_AcquireBeforeUpdate ==
    /\ []((InTick /\ pc # "idle") => IsPrefix(calls, AcquireFirstOrder))
    /\ [][pc # "idle" => (event' = event /\ ticks' = ticks)]_vars

RotationIsZero ==
    camera_controller.rotate_horizontal = 0 /\ camera_controller.rotate_vertical = 0

\* C3: rotation deltas are consumed once.  Whenever no pointer motion arrived
\* since the last tick, the deltas are zero when the next event is handled;
\* they are zero from reset_mouse_movement to the end of the tick; and a
\* Camera.update with no pointer motion since the previous tick leaves yaw,
\* pitch and direction unchanged.  (In the first tick there is no previous
\* tick: yaw and pitch stay, and the direction is computed from them for the
\* first time.)
C3_DeltasConsumedOnce ==
    /\ [](/\ (pc \in { "idle", "camera_update" } /\ motion.count = 0) => RotationIsZero
          /\ pc \notin { "idle", "camera_update", "upload_camera", "reset_mouse" }
                 => RotationIsZero)
    /\ [][(pc = "camera_update" /\ pc' # pc /\ motion.count = 0) =>
              /\ camera'.yaw = camera.yaw
              /\ camera'.pitch = camera.pitch
              /\ ticks > 1 => camera'.direction = camera.direction]_vars

\* a second tick has just run Camera.update with no pointer motion since the
\* first tick, which had consumed a motion
C3_Witness ==
    /\ pc = "upload_camera" /\ ticks = 2 /\ motion.count = 0
    /\ camera.yaw # -900 /\ camera.pitch # 0

\* C4: the pitch lies in [-89, 89] degrees in every state.
C4_PitchClamped ==
    -PitchLimit <= camera.pitch /\ camera.pitch <= PitchLimit

\* Camera.update has just run with a vertical rotation beyond the limit
C4_Witness ==
    /\ pc = "upload_camera" /\ camera.pitch = -PitchLimit
    /\ motion.count > 0 /\ -motion.y * Sensitivity < -PitchLimit

AfterAcquire == { "encode", "draw_pyramid", "draw_ground", "submit", "present", "match" }

\* C5: a tick whose acquire failed with Lost ends with Renderer::resize
\* re-applying the recorded size: the surface is configured again, with that
\* size, in the same handler; and unless the presentation layer reports a new
\* fault, the next acquire succeeds with no resize event in between.
C5_LostRecovered ==
    /\ (pc = "idle" /\ InTick /\ result = "Lost") =>
           /\ calls = SubSeq(UpdateFirstOrder, 1, 5) \o << "surface.configure" >>
           /\ surface.state # "lost"
    /\ lost_recovery =>
           /\ surface = [ width |-> size.width, height |-> size.height, state |-> "ok" ]
           /\ config = size
           /\ pc \in AfterAcquire => result = "Ok"

\* the tick after a Lost tick has acquired its target, with no resize event
\* and no new fault since
C5_Witness == lost_recovery /\ pc = "encode" /\ result = "Ok"

\* a step that handles a whole event (ticks are the steps that leave or enter
\* pc = "idle" otherwise)
HandlesEvent(kind) == pc = "idle" /\ pc' = "idle" /\ event'.kind = kind

\* Renderer.size, the configuration, the size the surface was configured with
\* and the size the camera aspect was computed from are the same
SizesAgree ==
    /\ config = [ width |-> size.width, height |-> size.height ]
    /\ surface.width = size.width /\ surface.height = size.height
    /\ camera.aspect = Aspect(size.width, size.height)

\* C6: a Resized event whose width or height is 0 (zero width, zero height or
\* both) leaves the camera aspect, Renderer.size, the configuration and the
\* surface unchanged and calls no surface.configure.
C6_ZeroResizeIgnored ==
    [][(HandlesEvent("Resized") /\ (event'.x = 0 \/ event'.y = 0)) =>
           /\ camera' = camera
           /\ size' = size
           /\ config' = config
           /\ surface' = surface
           /\ calls' = << >>]_vars

\* a resize of zero width and positive height was handled and ignored after a
\* resize event had changed the size
C6_Witness ==
    /\ pc = "idle" /\ event.kind = "Resized" /\ event.x = 0 /\ event.y > 0
    /\ size = [ width |-> 400, height |-> 200 ] /\ SizesAgree
    /\ calls = << >>

\* C7: when acquire fails with OutOfMemory the handler tells the loop to exit,
\* and after that tick nothing runs any more: no update, no render, no event
\* handler (the loop is left at the end of the iteration that set exit).
C7_OutOfMemoryExits ==
    /\ []((pc = "idle" /\ InTick /\ result = "OutOfMemory") => exit)
    /\ [][(pc = "idle" /\ InTick /\ result = "OutOfMemory") => UNCHANGED vars]_vars
    /\ [][exit => exit']_vars

C7_Witness ==
    /\ pc = "idle" /\ result = "OutOfMemory" /\ exit
    /\ calls = SubSeq(UpdateFirstOrder, 1, 5) \o << "set_exit" >>

\* C8: when acquire fails with an error other than Lost or OutOfMemory, the
\* handler logs it and does nothing else: nothing is encoded, submitted or
\* presented, the surface is not configured, exit is left as it was, and the
\* handler returns to the loop.
C8_OtherErrorLogged ==
    /\ []((InTick /\ result \notin { "none", "Ok", "Lost", "OutOfMemory" }) =>
              /\ pc \in { "match", "idle" }
              /\ pass = << >>
              /\ pc = "match" => calls = SubSeq(UpdateFirstOrder, 1, 5)
              /\ pc = "idle" => calls = SubSeq(UpdateFirstOrder, 1, 5) \o << "eprintln" >>)
    /\ [][(pc = "match" /\ result \notin { "Ok", "Lost", "OutOfMemory" }) =>
              /\ exit' = exit
              /\ UNCHANGED << size, config, surface, camera >>
              /\ pc' = "idle"]_vars

C8_Witness ==
    /\ pc = "idle" /\ InTick /\ result = "Outdated" /\ ~exit
    /\ calls[Len(calls)] = "eprintln"

\* C9: a keyboard event is reported handled exactly for the mapped keys; a
\* mapped key sets its own intent to 1 on press and 0 on release and changes
\* nothing else of the controller; any other key changes nothing.
C9_ProcessKeyboard ==
    [][HandlesEvent("KeyboardInput") =>
           LET key == event'.key
               amount == IF event'.state = "Pressed" THEN 1 ELSE 0
           IN  /\ input_result' = (key \in MappedKeys)
               /\ key \in MappedKeys =>
                      camera_controller' = [camera_controller EXCEPT ![IntentOf(key)] = amount]
               /\ key \notin MappedKeys => camera_controller' = camera_controller]_vars

\* the Up arrow was released while other intents and rotation deltas were set
C9_Witness ==
    /\ event = KeyboardInputEvent("Up", "Released") /\ input_result
    /\ camera_controller.amount_forward = 0
    /\ camera_controller.amount_up = 1
    /\ camera_controller.amount_left = 1
    /\ camera_controller.rotate_horizontal # 0

RunsCameraUpdate == pc = "camera_update" /\ pc' # "camera_update"

\* C10 as stated: Camera.update changes yaw and pitch by exactly
\* (-dx * sensitivity, -dy * sensitivity) of the last pointer motion since the
\* previous tick (by nothing when there was none).
C10_LastMotionExact ==
    [][RunsCameraUpdate =>
           /\ camera'.yaw = camera.yaw - motion.x * Sensitivity
           /\ camera'.pitch = camera.pitch - motion.y * Sensitivity]_vars

\* C10 amended: Camera.update changes yaw by exactly -dx * sensitivity of the
\* last pointer motion since the previous tick, and sets pitch to
\* pitch - dy * sensitivity of that motion clamped to [-89, 89]; earlier
\* motions have no effect.
C10_LastMotionClamped ==
    [][RunsCameraUpdate =>
           /\ camera'.yaw = camera.yaw - motion.x * Sensitivity
           /\ camera'.pitch = Clamp(camera.pitch - motion.y * Sensitivity,
                                    -PitchLimit, PitchLimit)]_vars

\* Camera.update has just run after several pointer motions
C10_Witness ==
    /\ pc = "upload_camera" /\ motion.count = 2
    /\ camera.yaw = -900 - motion.x * Sensitivity /\ motion.x # 0

\* the inner product of a and b, for b in millionths, in the units of a
Dot(a, b) == MulWork(a[1], b[1]) + MulWork(a[2], b[2]) + MulWork(a[3], b[3])

\* a Camera.update that consumes a pointer motion to the right (dx > 0, dy = 0)
YawsOnPointerRight ==
    RunsCameraUpdate /\ motion.count > 0 /\ motion.x > 0 /\ motion.y = 0

\* C11: moving the pointer right yaws the camera right.  After the
\* Camera.update that consumes a pointer motion with dx > 0 and dy = 0, the new
\* direction has a positive component along the right vector
\* normalize(cross(direction, up)) of the direction before the update.
C11_PointerRightYawsRight ==
    [][YawsOnPointerRight =>
           Dot(camera'.direction, Normalize(Cross(camera.direction, camera.up))) > 0]_vars

\* the net intent along each axis
NetForward == camera_controller.amount_forward - camera_controller.amount_backward
NetRight == camera_controller.amount_right - camera_controller.amount_left
NetUp == camera_controller.amount_up - camera_controller.amount_down

\* speed * net * v, for a unit vector v in millionths, in position units
Displacement(v, net) == << v[1] * net, v[2] * net, v[3] * net >>

\* C12: one Camera.update displaces position by exactly speed * (forward -
\* backward) along the direction computed in that update, plus speed * (right -
\* left) along right = normalize(cross(direction, up)), plus speed * (up - down)
\* along the up axis.  With only the forward key held the displacement is 0.2
\* times the new direction, with nothing added along right or up; opposite
\* held keys cancel.
C12_Displacement ==
    [][RunsCameraUpdate =>
           LET direction == camera'.direction
               right == Right(camera'.yaw, camera'.pitch, camera.up)
           IN  /\ camera'.position =
                      VecAdd(VecAdd(VecAdd(camera.position,
                                           Displacement(direction, NetForward)),
                                    Displacement(right, NetRight)),
                             Displacement(camera.up, NetUp))
               /\ (NetForward = 1 /\ camera_controller.amount_backward = 0
                       /\ NetRight = 0 /\ NetUp = 0) =>
                      camera'.position = VecAdd(camera.position, direction)
               /\ (camera_controller.amount_forward = 1
                       /\ camera_controller.amount_backward = 1
                       /\ NetRight = 0 /\ NetUp = 0) =>
                      camera'.position = camera.position]_vars

\* with only the forward key held, a tick has turned the camera and moved it
\* by 0.2 along the new direction
C12_Witness ==
    /\ pc = "upload_camera" /\ ticks = 1 /\ motion.count > 0
    /\ NetForward = 1 /\ camera_controller.amount_backward = 0
    /\ NetRight = 0 /\ NetUp = 0
    /\ camera.direction # CameraNew(800, 600).direction
    /\ camera.position = VecAdd(CameraNew(800, 600).position, camera.direction)

Count(seq, x) == Cardinality({ i \in 1..Len(seq) : seq[i] = x })

RenderSteps == { "encode", "draw_pyramid", "draw_ground", "submit", "present" }

\* C13: a tick either completes encode, submit and present or is abandoned
\* before anything is submitted.  A tick whose acquire failed has recorded no
\* pass, submitted nothing and presented nothing, and leaves the last frame and
\* the screen as they were; a tick whose acquire succeeded runs every statement
\* from the encoding to present with nothing in between and exit untouched, and
\* ends having submitted exactly once and then presented what it submitted.
C13_CompleteOrAbandoned ==
    /\ [](/\ (InTick /\ result # "Ok") =>
                 /\ Count(calls, "submit") = 0
                 /\ Count(calls, "present") = 0
                 /\ pass = << >>
          /\ (InTick /\ pc = "idle" /\ result = "Ok") =>
                 /\ Count(calls, "submit") = 1
                 /\ Count(calls, "present") = 1
                 /\ SubSeq(calls, Len(calls) - 1, Len(calls)) = << "submit", "present" >>
                 /\ frame # << >>
                 /\ screen = frame)
    /\ [][/\ (frame' # frame \/ screen' # screen) => (InTick /\ result = "Ok")
          /\ pc \in RenderSteps =>
                 /\ result = "Ok"
                 /\ pc' = StepAfter(pc)
                 /\ exit' = exit
                 /\ event' = event]_vars

\* a tick was abandoned at a failed acquire after an earlier tick had completed:
\* the screen still shows the earlier frame
C13_Witness ==
    /\ pc = "idle" /\ InTick /\ result = "Outdated" /\ ticks = 2
    /\ Count(calls, "get_current_texture") = 1 /\ Count(calls, "submit") = 0
    /\ screen # << >> /\ screen = frame

\* C14: exit is set only by the handler of a close request or by the match arm
\* of an OutOfMemory acquire error, never by a keyboard event, a pointer
\* motion, a resize, MainEventsCleared or any other acquire result; and every
\* close request sets exit, whatever the controller holds, because
\* Renderer::input does not consume it.
C14_ExitOnlyOnCloseOrOutOfMemory ==
    [][/\ exit' # exit =>
              /\ exit'
              /\ \/ HandlesEvent("CloseRequested")
                 \/ pc = "match" /\ result = "OutOfMemory"
       /\ HandlesEvent("CloseRequested") =>
              /\ ~input_result'
              /\ exit'
              /\ camera_controller' = camera_controller]_vars

\* a close request arrived while a key was held and a pointer motion was
\* pending, and set exit
C14_Witness ==
    /\ exit /\ event.kind = "CloseRequested" /\ calls = << "set_exit" >>
    /\ camera_controller.amount_forward = 1
    /\ camera_controller.rotate_horizontal # 0

Intents ==
    { "amount_forward", "amount_backward", "amount_left", "amount_right",
      "amount_up", "amount_down" }

\* C15: after any sequence of keyboard events each of the six directional
\* intents is 0 or 1, and it is 1 exactly when the most recent event among the
\* keys mapped to it was a press (0 after a release, 0 when there was no such
\* event); the keys still held do not matter.
C15_IntentFollowsLastEvent ==
    \A i \in Intents :
        /\ camera_controller[i] \in { 0, 1 }
        /\ camera_controller[i] = IF i \in keyboard.pressed_last THEN 1 ELSE 0

\* the Up arrow was released while W is still held: the forward intent is 0
C15_Witness ==
    /\ event = KeyboardInputEvent("Up", "Released")
    /\ "W" \in keyboard.held
    /\ camera_controller.amount_forward = 0
    /\ "amount_forward" \notin keyboard.pressed_last

\* C16: after construction and after any sequence of resize events and Lost
\* recoveries, Renderer.size, the width and height of the surface
\* configuration and the dimensions the camera aspect was computed from are
\* equal, and the size is never zero-area; a step that changes one of them is
\* the handling of a resize event, sets all of them to the event's size and
\* configures the surface.
C16_SizesAgree ==
    /\ [](SizesAgree /\ size.width > 0 /\ size.height > 0)
    /\ [][(size' # size \/ config' # config \/ camera'.aspect # camera.aspect
             \/ surface'.width # surface.width \/ surface'.height # surface.height) =>
              /\ HandlesEvent("Resized")
              /\ size' = [ width |-> event'.x, height |-> event'.y ]
              /\ SizesAgree'
              /\ calls' = << "surface.configure" >>]_vars

\* a Lost tick re-applied a size that a resize event had set, after a
\* zero-area resize had been ignored
C16_Witness ==
    /\ pc = "idle" /\ InTick /\ result = "Lost"
    /\ calls[Len(calls)] = "surface.configure"
    /\ size = [ width |-> 400, height |-> 200 ]
    /\ SizesAgree /\ camera.aspect = << 2, 1 >>

====
